---------------------------- MODULE Spec2Model ----------------------------
(***************************************************************************)
(* Model of the mistral.rs request path:                                   *)
(*   - Llama::forward, the sequence-chunked multi-device forward pass with *)
(*     its per-device KV caches (mistralrs-core/src/models/llama.rs);      *)
(*   - the completions handler and its Streamer                            *)
(*     (mistralrs-server/src/completions.rs);                              *)
(*   - the engine input channel (mistralrs-core/src/lib.rs);               *)
(*   - prompt/decode input construction                                    *)
(*     (mistralrs-core/src/pipeline/mod.rs).                               *)
(* Indices are 0-based as in the source; a Rust Vec is a TLA+ sequence and *)
(* At(v, j) reads v[j].                                                    *)
(***************************************************************************)
EXTENDS Integers, Sequences, FiniteSets, TLC

\* ------------------------------------------------------------------ bounds
\* num_hidden_layers of the loaded model.
NumLayers == 4
\* Longest prompt given to a prompt step.
MaxPrompt == 5
\* Longest past any layer slot may reach before no further pass is started.
MaxPast == 6
\* Number of times the engine releases the cache in one behaviour.
MaxReleases == 1
\* Responses the engine sends on one request's response channel.
MaxResponses == 3
\* Polls of one Streamer.
MaxPolls == 4
\* Request handlers running concurrently, and requests each submits.
NumHandlers == 2
MaxSubmits == 2
\* Sequences in a batch and tokens in a sequence.
MaxBatch == 2
MaxLen == 3

\* --------------------------------------------------------- program constants
\* `let num_devices = 4;` in Llama::forward and Llama::new.
num_devices == 4
\* `let padding_tok = 0;` in get_prompt_input.
padding_tok == 0

VARIABLES
    \* ---- Llama (llama.rs:357-368)
    layer_dev,              \* mapper: layer index -> device id
    cuda_devices,           \* Vec<Device>: distinct layer devices, load order
    paged,                  \* attention_mechanism = PagedAttention
    kv_caches,              \* Vec<Cache>: cache index -> layer -> slot
    \* ---- one call of Llama::forward
    pc,                     \* "idle" | "chunks" | "block_end" | "finish" | "panicked"
    seq_len,                \* S of the pass in flight
    offset,                 \* seqlen_offsets[0] of the pass in flight
    chunks,                 \* Vec of [start, end, src, dev]
    block_idx,
    chunk_idx,
    cache_rotation,
    accumulated_attention,  \* Option<Tensor>
    block_chunks,           \* Vec<Tensor>
    processed_chunks,       \* Vec<Tensor>
    logits,                 \* result of the last pass that returned Ok
    \* ---- bookkeeping of the caller (engine / pipeline)
    processed,              \* positions of the current sequence already run
    entry_caches,           \* kv_caches as they were when the last pass began
    last_result,            \* "none" | "ok" | "err" | "released"
    failed,                 \* some pass of this behaviour returned Err
    releases,
    \* ---- one completion request's response channel (completions.rs)
    is_streaming,           \* request.is_streaming
    rx,                     \* Receiver<Response>: responses queued
    tx_alive,               \* the engine still holds the Sender<Response>
    sent,                   \* every response the engine sent, in order
    is_done,                \* Streamer.is_done
    poll_log,               \* what each poll_next call returned, in order
    handler,                \* "sse" | "waiting" | "returned" | "panicked"
    outcome,                \* the response the handler returned
    \* ---- the engine input channel (lib.rs)
    channels,               \* channel id -> queue of requests
    sender,                 \* MistralRs.sender: the channel it sends into
    engine_rx,              \* the channel whose Receiver the worker owns
    worker_alive,
    submitted,              \* requests whose send returned Ok, in that order
    received,               \* requests the worker took, in order
    submits,                \* handler -> requests it has submitted
    handler_panicked,       \* handler -> its send().unwrap() panicked
    \* ---- input construction (pipeline/mod.rs)
    input_toks,             \* the batch: Vec of token buffers
    toks_at_call,           \* the token buffers when the call was made
    no_kv_cache,
    input_call,             \* "none" | "prompt" | "completion": what was called
    input_result,           \* (Tensor, Vec<usize>) returned, or none
    \* ---- the cache locks of Llama::forward (llama.rs:412-492)
    lk_pc,                  \* "idle" | "rotation" | "body" | "end_of_body"
                            \*   | "blocked" | "returned_ok" | "returned_err"
    lk_nchunks,             \* chunks.len() of the pass
    lk_block,               \* block_idx
    lk_chunk,               \* chunk_idx
    lk_rot,                 \* cache_rotation
    held                    \* cache indices whose MutexGuard `cache` is alive

fwdVars == <<layer_dev, cuda_devices, paged, kv_caches, pc, seq_len, offset,
             chunks, block_idx, chunk_idx, cache_rotation,
             accumulated_attention, block_chunks, processed_chunks, logits,
             processed, entry_caches, last_result, failed, releases>>

srvVars == <<is_streaming, rx, tx_alive, sent, is_done, poll_log, handler,
             outcome>>

chanVars == <<channels, sender, engine_rx, worker_alive, submitted, received,
              submits, handler_panicked>>

inVars == <<input_toks, toks_at_call, no_kv_cache, input_call, input_result>>

lockVars == <<lk_pc, lk_nchunks, lk_block, lk_chunk, lk_rot, held>>

vars == <<fwdVars, srvVars, chanVars, inVars, lockVars>>

\* ----------------------------------------------------------------- helpers
At(v, j) == v[j + 1]

Layers == 0 .. (NumLayers - 1)
Caches == 0 .. (num_devices - 1)

RECURSIVE Iota(_, _)
\* <<a, a+1, ..., b-1>>
Iota(a, b) == IF a >= b THEN <<>> ELSE <<a>> \o Iota(a + 1, b)

RECURSIVE Flatten(_)
Flatten(ss) == IF ss = <<>> THEN <<>> ELSE Head(ss) \o Flatten(Tail(ss))

\* ----------------------------------------------------------- KV cache slots
\* Option<(Tensor, Tensor)>: K and V always share length and device, so one
\* `past` (the absolute positions stored, in storage order) stands for both.
NoneSlot == [some |-> FALSE, past |-> <<>>, dev |-> -1]

\* Cache::new(num_hidden_layers, false): every layer slot None.
NewCache == [l \in Layers |-> NoneSlot]

\* Llama::new: num_devices caches, all empty.
NewKvCaches == [c \in Caches |-> NewCache]

\* Collects the distinct layer devices in layer order.
RECURSIVE CollectDevices(_, _, _)
CollectDevices(map, i, acc) ==
    IF i = NumLayers THEN acc
    ELSE CollectDevices(map, i + 1,
            IF \E k \in 1 .. Len(acc) : acc[k] = map[i]
            THEN acc ELSE Append(acc, map[i]))

\* Device maps the loader may be given: layer i on device i % n.
DeviceMaps == { [l \in Layers |-> l % n] : n \in 1 .. NumLayers }

\* Cache::update_kv_cache(slot, k, v, false): concatenates the new keys onto
\* the slot along the sequence axis; the new past lives where k lives.
update_kv_cache(slot, k, kdev) ==
    [some |-> TRUE, past |-> slot.past \o k, dev |-> kdev]

\* original_cache_device: device of the first occupied slot, or the chunk's.
RECURSIVE FirstSomeDev(_, _, _)
FirstSomeDev(cache, l, dflt) ==
    IF l = NumLayers THEN dflt
    ELSE IF cache[l].some THEN cache[l].dev
    ELSE FirstSomeDev(cache, l + 1, dflt)

original_cache_device(cache, device_chunk) == FirstSomeDev(cache, 0, device_chunk)

\* cache.iter().map(|opt| opt.map(|(k, v)| (k.to_device(d), v.to_device(d))))
ToDevice(cache, d) ==
    [l \in Layers |-> IF cache[l].some THEN [cache[l] EXCEPT !.dev = d]
                      ELSE cache[l]]


\* ------------------------------------------------------------ Llama::forward
\* Variant: chunk_size is rounded up, the last chunk takes what is left.
ChunkBoundsCeil(S) ==
    LET chunk_size == (S + num_devices - 1) \div num_devices IN
    IF S < num_devices
    THEN [j \in 1 .. S |-> [start |-> j - 1, end |-> j, src |-> -1]]
    ELSE [j \in 1 .. num_devices |->
            [start |-> (j - 1) * chunk_size,
             end   |-> IF j - 1 = num_devices - 1 THEN S ELSE j * chunk_size,
             src   |-> -1]]

\* Variant: the last chunk ends at N * chunk_size, the remainder is dropped.
ChunkBoundsDropRemainder(S) ==
    LET chunk_size == S \div num_devices IN
    IF S < num_devices
    THEN [j \in 1 .. S |-> [start |-> j - 1, end |-> j, src |-> -1]]
    ELSE [j \in 1 .. num_devices |->
            [start |-> (j - 1) * chunk_size, end |-> j * chunk_size, src |-> -1]]

\* The slices of the embedding and the index of the device each is sent to.
\* src = -1 marks a slice of the embedding output (`x` of line 380).
ChunkBounds(S) ==
    LET chunk_size == S \div num_devices IN
    IF S < num_devices
    THEN [j \in 1 .. S |-> [start |-> j - 1, end |-> j, src |-> -1]]
    ELSE [j \in 1 .. num_devices |->
            [start |-> (j - 1) * chunk_size,
             end   |-> IF j - 1 = num_devices - 1 THEN S ELSE j * chunk_size,
             src   |-> -1]]

\* `self.cuda_devices[j]` for every chunk index j is in range.
DeviceIndexInRange(S) == Len(ChunkBounds(S)) <= Len(cuda_devices)

\* Variant: every chunk is sent to the first device.
MakeChunksOneDevice(S) ==
    LET b == ChunkBounds(S) IN
    [j \in 1 .. Len(b) |->
        [start |-> b[j].start, end |-> b[j].end, src |-> b[j].src,
         dev |-> cuda_devices[1]]]

MakeChunks(S) ==
    LET b == ChunkBounds(S) IN
    [j \in 1 .. Len(b) |->
        [start |-> b[j].start, end |-> b[j].end, src |-> b[j].src,
         dev |-> cuda_devices[j]]]

\* Absolute positions of the tokens of a chunk.
ChunkPositions(ch) == Iota(offset + ch.start, offset + ch.end)

\* Variant: the rotation is left out of the index.
CacheIdxNoRotation(c, r) == c % num_devices

\* let cache_idx = (chunk_idx + cache_rotation) % num_caches;
CacheIdx(c, r) == (c + r) % num_devices

\* What a tensor was computed from, as a term over the operations applied:
\* [op, args]. `wte` is a slice of the embedding output (line 380).
wte == [op |-> "wte", args |-> <<>>]
rms_1(e) == [op |-> "rms_1", args |-> <<e>>]
attn(e) == [op |-> "attn", args |-> <<e>>]
rms_2(e) == [op |-> "rms_2", args |-> <<e>>]
mlp(e) == [op |-> "mlp", args |-> <<e>>]
add(a, b) == [op |-> "add", args |-> <<a, b>>]

\* Block::forward, lines 304-319: residual = x; x = attn(rms_1(x)) + residual;
\* x = rms_2(x); the MLP line is commented out; Ok(x).
BlockOut(x) == rms_2(add(attn(rms_1(x)), x))

\* Variant: the keys are stored in the layer cache on the paged path too.
AttnStagedAlwaysAppend(staged, ch, forward_device) ==
    [staged EXCEPT ![block_idx] =
        update_kv_cache(staged[block_idx], ChunkPositions(ch), forward_device)]

\* CausalSelfAttention::forward on the staged cache: the eager path appends
\* the chunk's keys to layer block_idx, the paged path leaves it alone.
AttnStaged(staged, ch, forward_device) ==
    IF paged THEN staged
    ELSE [staged EXCEPT ![block_idx] =
            update_kv_cache(staged[block_idx], ChunkPositions(ch), forward_device)]

\* Block::forward: what one call returns for a chunk, as the keys its
\* attention ran against (empty for the paged store).
BlockForward(staged_after, ch, cache_idx) ==
    [blk   |-> block_idx,
     cache |-> cache_idx,
     src   |-> ch.src,
     keys  |-> IF paged THEN <<>> ELSE staged_after[block_idx].past,
     out   |-> BlockOut(wte)]

NoneTensor == [some |-> FALSE, pos |-> <<>>, dev |-> -1, terms |-> <<>>]

\* if let Some(acc) { acc.add(x) } else { accumulated_attention = Some(x) }
Accumulate(acc, x, ch, forward_device) ==
    IF acc.some THEN [acc EXCEPT !.terms = Append(acc.terms, x)]
    ELSE [some |-> TRUE, pos |-> ChunkPositions(ch), dev |-> forward_device,
          terms |-> <<x>>]

\* The accumulated tensor of a chunk: acc = x_0; acc = acc.add(x_r) for r > 0.
RECURSIVE AccOut(_, _)
AccOut(terms, n) ==
    IF n = 1 THEN terms[1].out ELSE add(AccOut(terms, n - 1), terms[n].out)

\* Lines 504-506 on the positions of one chunk: residual = x.clone();
\* x = block.mlp.forward(&x); x = x + &residual.
BlockEndOut(acc) == add(mlp(AccOut(acc.terms, Len(acc.terms))),
                        AccOut(acc.terms, Len(acc.terms)))

\* Variant: the cache stays on the chunk's device after the rotation.
WriteBackStay(staged_after, orig) == staged_after

\* Variant: only the layer the block touched is written back.
WriteBackTouchedOnly(staged_after, orig) ==
    [l \in Layers |-> IF l = block_idx THEN ToDevice(staged_after, orig)[l]
                      ELSE NoneSlot]

\* *cache = cache_on_chunk_device moved back to original_cache_device.
WriteBack(staged_after, orig) == ToDevice(staged_after, orig)

\* The number of rotations run for each chunk: `0..num_caches`.
NumRotations == Len([c \in 1 .. num_devices |-> kv_caches[c - 1]])

MaxPastLen ==
    LET lens == { Len(kv_caches[c][l].past) : c \in Caches, l \in Layers }
    IN CHOOSE m \in lens : \A k \in lens : k <= m

\* Entry of Llama::forward: embedding and chunking (lines 380-411).
StartForward(S) ==
    /\ pc = "idle"
    /\ MaxPastLen + S <= MaxPast
    /\ processed + S <= MaxPast
    /\ seq_len' = S
    /\ offset' = processed
    /\ entry_caches' = kv_caches
    /\ block_idx' = 0
    /\ chunk_idx' = 0
    /\ cache_rotation' = 0
    /\ accumulated_attention' = NoneTensor
    /\ block_chunks' = <<>>
    /\ processed_chunks' = <<>>
    /\ IF DeviceIndexInRange(S)
       THEN /\ pc' = "chunks"
            /\ chunks' = MakeChunks(S)
       ELSE /\ pc' = "panicked"
            /\ chunks' = <<>>
    /\ UNCHANGED <<layer_dev, cuda_devices, paged, kv_caches, logits,
                   processed, last_result, failed, releases>>
    /\ UNCHANGED <<srvVars, chanVars, inVars, lockVars>>

\* One iteration of the rotation loop (lines 421-492) that returns Ok, with
\* the end of the chunk loop body (lines 494-497) when it is the last one.
CacheRotation ==
    /\ pc = "chunks"
    /\ LET ch             == At(chunks, chunk_idx)
           cache_idx      == CacheIdx(chunk_idx, cache_rotation)
           locked         == kv_caches[cache_idx]
           device_chunk   == ch.dev
           orig           == original_cache_device(locked, device_chunk)
           staged         == ToDevice(locked, device_chunk)
           forward_device == layer_dev[block_idx]
           staged_after   == AttnStaged(staged, ch, forward_device)
           x              == BlockForward(staged_after, ch, cache_idx)
           acc            == Accumulate(accumulated_attention, x, ch, forward_device)
           last_rot       == cache_rotation + 1 = NumRotations
           last_chunk     == chunk_idx + 1 = Len(chunks)
       IN /\ kv_caches' = [kv_caches EXCEPT ![cache_idx] = WriteBack(staged_after, orig)]
          /\ IF last_rot
             THEN /\ block_chunks' = Append(block_chunks, acc)
                  /\ accumulated_attention' = NoneTensor
                  /\ cache_rotation' = 0
                  /\ chunk_idx' = chunk_idx + 1
                  /\ pc' = IF last_chunk THEN "block_end" ELSE "chunks"
             ELSE /\ accumulated_attention' = acc
                  /\ cache_rotation' = cache_rotation + 1
                  /\ UNCHANGED <<block_chunks, chunk_idx, pc>>
    /\ UNCHANGED <<layer_dev, cuda_devices, paged, seq_len, offset, chunks,
                   block_idx, processed_chunks, logits, processed,
                   entry_caches, last_result, failed, releases>>
    /\ UNCHANGED <<srvVars, chanVars, inVars, lockVars>>

\* The mask or the block returns Err in a rotation (`?` of lines 448, 476):
\* forward returns at once, the staged copy is dropped, nothing is written back.
CacheRotationErr ==
    /\ pc = "chunks"
    /\ ~failed
    /\ pc' = "idle"
    /\ last_result' = "err"
    /\ failed' = TRUE
    /\ UNCHANGED <<layer_dev, cuda_devices, paged, kv_caches, seq_len, offset,
                   chunks, block_idx, chunk_idx, cache_rotation,
                   accumulated_attention, block_chunks, processed_chunks,
                   logits, processed, entry_caches, releases>>
    /\ UNCHANGED <<srvVars, chanVars, inVars, lockVars>>

\* Variant: the block is closed as soon as one chunk has been accumulated,
\* without waiting for the remaining chunks.
BlockEndEarly ==
    /\ pc \in {"chunks", "block_end"}
    /\ block_chunks # <<>>
    /\ cache_rotation = 0
    /\ processed_chunks' = Append(processed_chunks,
           [src  |-> block_idx,
            from |-> { block_chunks[i].terms[1].src : i \in 1 .. Len(block_chunks) },
            pos  |-> Flatten([i \in 1 .. Len(block_chunks) |-> block_chunks[i].pos]),
            dev  |-> cuda_devices[1],
            out  |-> [i \in 1 .. Len(block_chunks) |-> BlockEndOut(block_chunks[i])]])
    /\ block_chunks' = <<>>
    /\ chunk_idx' = 0
    /\ cache_rotation' = 0
    /\ block_idx' = block_idx + 1
    /\ pc' = IF block_idx + 1 = NumLayers THEN "finish" ELSE "chunks"
    /\ UNCHANGED <<layer_dev, cuda_devices, paged, kv_caches, seq_len, offset,
                   chunks, accumulated_attention, logits, processed,
                   entry_caches, last_result, failed, releases>>
    /\ UNCHANGED <<srvVars, chanVars, inVars, lockVars>>

\* End of a block (lines 500-508): concatenate, MLP, residual, push.
BlockEnd ==
    /\ pc = "block_end"
    /\ processed_chunks' = Append(processed_chunks,
           [src  |-> block_idx,
            from |-> { block_chunks[i].terms[1].src : i \in 1 .. Len(block_chunks) },
            pos  |-> Flatten([i \in 1 .. Len(block_chunks) |-> block_chunks[i].pos]),
            dev  |-> cuda_devices[1],
            out  |-> [i \in 1 .. Len(block_chunks) |-> BlockEndOut(block_chunks[i])]])
    /\ block_chunks' = <<>>
    /\ chunk_idx' = 0
    /\ cache_rotation' = 0
    /\ block_idx' = block_idx + 1
    /\ pc' = IF block_idx + 1 = NumLayers THEN "finish" ELSE "chunks"
    /\ UNCHANGED <<layer_dev, cuda_devices, paged, kv_caches, seq_len, offset,
                   chunks, accumulated_attention, logits, processed,
                   entry_caches, last_result, failed, releases>>
    /\ UNCHANGED <<srvVars, chanVars, inVars, lockVars>>

\* Lines 510-516: concatenate the processed chunks, final norm, LM head.
FinishForward ==
    /\ pc = "finish"
    /\ logits' = [some |-> TRUE,
                  srcs |-> [i \in 1 .. Len(processed_chunks) |-> processed_chunks[i].src],
                  pos  |-> Flatten([i \in 1 .. Len(processed_chunks) |->
                                        processed_chunks[i].pos])]
    /\ pc' = "idle"
    /\ last_result' = "ok"
    /\ processed' = processed + seq_len
    /\ UNCHANGED <<layer_dev, cuda_devices, paged, kv_caches, seq_len, offset,
                   chunks, block_idx, chunk_idx, cache_rotation,
                   accumulated_attention, block_chunks, processed_chunks,
                   entry_caches, failed, releases>>
    /\ UNCHANGED <<srvVars, chanVars, inVars, lockVars>>

\* NormalModel::cache: the one cache the model hands to its owner.
cache == 0

\* The engine retires a sequence: it empties every layer slot of the cache the
\* pipeline's `cache` accessor returns, and the next sequence starts at 0.
ReleaseCache ==
    /\ pc = "idle"
    /\ last_result = "ok"
    /\ releases < MaxReleases
    /\ kv_caches' = [kv_caches EXCEPT ![cache] = NewCache]
    /\ processed' = 0
    /\ last_result' = "released"
    /\ releases' = releases + 1
    /\ UNCHANGED <<layer_dev, cuda_devices, paged, pc, seq_len, offset, chunks,
                   block_idx, chunk_idx, cache_rotation,
                   accumulated_attention, block_chunks, processed_chunks,
                   logits, entry_caches, failed>>
    /\ UNCHANGED <<srvVars, chanVars, inVars, lockVars>>

\* A prompt step passes the whole prompt, a decode step the newest token.
StepLengths == IF processed = 0 THEN 1 .. MaxPrompt ELSE {1}


\* ------------------------------------------- completions.rs: response side
\* mistralrs_core::Response. `data` names the payload (message or response
\* body) and `partial` the partial response of a model error; 0 stands for
\* "no such field".
Variants == {"CompletionChunk", "CompletionDone", "CompletionModelError",
             "ValidationError", "InternalError", "Chunk", "Done", "ModelError"}

MkResponse(v, n, d) ==
    [variant |-> v,
     data    |-> n,
     done    |-> d,
     partial |-> IF v \in {"CompletionModelError", "ModelError"} THEN n + 100 ELSE 0]

\* The n-th response the engine may send: any variant, a chunk final or not.
ResponsesAt(n) ==
    { MkResponse(v, n, FALSE) : v \in Variants }
        \cup { MkResponse("CompletionChunk", n, TRUE) }

\* The engine sends a response into the request's sink.
EngineRespond(r) ==
    /\ tx_alive
    /\ handler \in {"sse", "waiting"}
    /\ Len(sent) < MaxResponses
    /\ rx' = Append(rx, r)
    /\ sent' = Append(sent, r)
    /\ UNCHANGED <<is_streaming, tx_alive, is_done, poll_log, handler, outcome>>
    /\ UNCHANGED <<fwdVars, chanVars, inVars, lockVars>>

\* The engine drops the sink (the sequence is retired, or the worker ended).
EngineDropSink ==
    /\ tx_alive
    /\ tx_alive' = FALSE
    /\ UNCHANGED <<is_streaming, rx, sent, is_done, poll_log, handler, outcome>>
    /\ UNCHANGED <<fwdVars, chanVars, inVars, lockVars>>

\* The four arms of Streamer::poll_next that build an event.
StreamArms == {"CompletionModelError", "ValidationError", "InternalError",
               "CompletionChunk"}

\* Event::default().data(..): the payload alone reaches the client; variant
\* and done are kept beside it to say which response the event came from.
EventOf(resp) ==
    [kind |-> "Some", data |-> resp.data, variant |-> resp.variant,
     done |-> resp.done]

PollNone == [kind |-> "None", data |-> 0, variant |-> "", done |-> FALSE]
PollPending == [kind |-> "Pending", data |-> 0, variant |-> "", done |-> FALSE]

\* Variant: the final chunk does not mark the stream done.
IsDoneNever(resp, d) == d

\* if response.done { self.is_done = true; }  -- the CompletionChunk arm only.
IsDoneAfter(resp, d) ==
    IF resp.variant = "CompletionChunk" /\ resp.done THEN TRUE ELSE d

\* Variant: the head is read but left in the queue.
TryRecvPeek(q) == q

\* self.rx.try_recv() on a non-empty queue takes its head.
TryRecvTake(q) == Tail(q)

\* Streamer::poll_next.
PollNext ==
    /\ handler = "sse"
    /\ Len(poll_log) < MaxPolls
    /\ IF is_done
       THEN /\ poll_log' = Append(poll_log, PollNone)
            /\ UNCHANGED <<rx, is_done, handler>>
       ELSE IF rx = <<>>
       THEN /\ poll_log' = Append(poll_log, PollPending)
            /\ UNCHANGED <<rx, is_done, handler>>
       ELSE LET resp == Head(rx) IN
            /\ rx' = TryRecvTake(rx)
            /\ IF resp.variant \in StreamArms
               THEN /\ poll_log' = Append(poll_log, EventOf(resp))
                    /\ is_done' = IsDoneAfter(resp, is_done)
                    /\ UNCHANGED handler
               ELSE /\ handler' = "panicked"
                    /\ UNCHANGED <<poll_log, is_done>>
    /\ UNCHANGED <<is_streaming, tx_alive, sent, outcome>>
    /\ UNCHANGED <<fwdVars, chanVars, inVars, lockVars>>

\* The match of the non-streaming branch of `completions` (lines 229-248).
RespondArms == {"InternalError", "CompletionModelError", "ValidationError",
                "CompletionDone"}

\* Variant: a model error is answered like an internal error, without the
\* partial response.
ResponderNoPartial(resp) ==
    CASE resp.variant = "InternalError" ->
            [kind |-> "InternalError", e |-> resp.data, response |-> 0]
      [] resp.variant = "CompletionModelError" ->
            [kind |-> "InternalError", e |-> resp.data, response |-> 0]
      [] resp.variant = "ValidationError" ->
            [kind |-> "ValidationError", e |-> resp.data, response |-> 0]
      [] resp.variant = "CompletionDone" ->
            [kind |-> "Json", e |-> 0, response |-> resp.data]

Responder(resp) ==
    CASE resp.variant = "InternalError" ->
            [kind |-> "InternalError", e |-> resp.data, response |-> 0]
      [] resp.variant = "CompletionModelError" ->
            [kind |-> "ModelError", e |-> resp.data, response |-> resp.partial]
      [] resp.variant = "ValidationError" ->
            [kind |-> "ValidationError", e |-> resp.data, response |-> 0]
      [] resp.variant = "CompletionDone" ->
            [kind |-> "Json", e |-> 0, response |-> resp.data]

\* CompletionResponder::into_response (lines 129-144).
into_response(r) ==
    CASE r.kind = "Json" ->
            [status |-> 200, body |-> "CompletionResponse",
             message |-> 0, response |-> r.response]
      [] r.kind = "InternalError" ->
            [status |-> 500, body |-> "JsonError",
             message |-> r.e, response |-> 0]
      [] r.kind = "ValidationError" ->
            [status |-> 422, body |-> "JsonError",
             message |-> r.e, response |-> 0]
      [] r.kind = "ModelError" ->
            [status |-> 500, body |-> "JsonModelError",
             message |-> r.e, response |-> r.response]

NoOutcome == [status |-> 0, body |-> "", message |-> 0, response |-> 0]

\* `rx.recv().unwrap()` and the match after it, in the non-streaming branch.
RecvResponse ==
    /\ handler = "waiting"
    /\ IF rx # <<>>
       THEN LET resp == Head(rx) IN
            /\ rx' = Tail(rx)
            /\ IF resp.variant \in RespondArms
               THEN /\ handler' = "returned"
                    /\ outcome' = into_response(Responder(resp))
               ELSE /\ handler' = "panicked"
                    /\ UNCHANGED outcome
       ELSE /\ ~tx_alive
            /\ handler' = "panicked"
            /\ UNCHANGED <<rx, outcome>>
    /\ UNCHANGED <<is_streaming, tx_alive, sent, is_done, poll_log>>
    /\ UNCHANGED <<fwdVars, chanVars, inVars, lockVars>>

\* ------------------------------------------------ lib.rs: the input channel
Handlers == 1 .. NumHandlers
ChannelIds == {0, 1}

\* Variant: the stored sender and the worker's receiver belong to two channels.
NewMistralRsSplit == [sender |-> 0, engine_rx |-> 1]

\* MistralRs::new: one channel(); tx is kept in `sender`, rx moves into the
\* engine worker spawned on its own thread.
NewMistralRs == [sender |-> 0, engine_rx |-> 0]

\* Variant: a sender of another channel than the one the worker reads.
GetSenderOther == 1 - sender

\* MistralRs::get_sender: a clone of the stored sender.
get_sender == sender

\* A send succeeds while the channel's Receiver exists.
ReceiverAlive(ch) == ch = engine_rx /\ worker_alive

\* completions, lines 202-206: build the request, get a sender, send, unwrap.
Submit(h) ==
    /\ submits[h] < MaxSubmits
    /\ ~handler_panicked[h]
    /\ LET req == [handler |-> h, n |-> submits[h] + 1]
           ch  == get_sender
       IN IF ReceiverAlive(ch)
          THEN /\ channels' = [channels EXCEPT ![ch] = Append(@, req)]
               /\ submitted' = Append(submitted, req)
               /\ submits' = [submits EXCEPT ![h] = @ + 1]
               /\ UNCHANGED handler_panicked
          ELSE /\ handler_panicked' = [handler_panicked EXCEPT ![h] = TRUE]
               /\ UNCHANGED <<channels, submitted, submits>>
    /\ UNCHANGED <<sender, engine_rx, worker_alive, received>>
    /\ UNCHANGED <<fwdVars, srvVars, inVars, lockVars>>

\* The engine loop takes the next queued request.
EngineRecv ==
    /\ worker_alive
    /\ channels[engine_rx] # <<>>
    /\ received' = Append(received, Head(channels[engine_rx]))
    /\ channels' = [channels EXCEPT ![engine_rx] = Tail(@)]
    /\ UNCHANGED <<sender, engine_rx, worker_alive, submitted, submits,
                   handler_panicked>>
    /\ UNCHANGED <<fwdVars, srvVars, inVars, lockVars>>

\* The engine loop ends (fatal error): its Receiver is dropped with whatever
\* is still queued.
WorkerExit ==
    /\ worker_alive
    /\ worker_alive' = FALSE
    /\ channels' = [channels EXCEPT ![engine_rx] = <<>>]
    /\ UNCHANGED <<sender, engine_rx, submitted, received, submits,
                   handler_panicked>>
    /\ UNCHANGED <<fwdVars, srvVars, inVars, lockVars>>

\* --------------------------------------- pipeline/mod.rs: input construction
TokenIds == {padding_tok, 7}

SeqsUpTo(n) == UNION { [1 .. k -> TokenIds] : k \in 0 .. n }
Batches == UNION { [1 .. b -> SeqsUpTo(MaxLen)] : b \in 1 .. MaxBatch }

MaxOf(S) == CHOOSE m \in S : \A k \in S : k <= m

\* Variant: the padding is put in front of the tokens.
PadFront(ctxt, max_len) == [k \in 1 .. (max_len - Len(ctxt)) |-> padding_tok] \o ctxt

\* ctxt.extend(repeat(padding_tok).take(max_len - ctxt.len()))
Pad(ctxt, max_len) == ctxt \o [k \in 1 .. (max_len - Len(ctxt)) |-> padding_tok]

\* Tensor::cat(&seqs_tensors, 0).unwrap() needs rows of one length.
RowsAgree(rows) == \A i, j \in 1 .. Len(rows) : Len(rows[i]) = Len(rows[j])

get_prompt_input(batch) ==
    LET max_len == MaxOf({ Len(batch[i]) : i \in 1 .. Len(batch) })
        rows    == [i \in 1 .. Len(batch) |-> Pad(batch[i], max_len)]
    IN [some |-> TRUE, ok |-> RowsAgree(rows), input |-> rows,
        seqlen_offsets |-> [i \in 1 .. Len(batch) |-> 0]]

\* Variant: the slice starts at the first token.
StartPosZero(n) == 0

\* len.saturating_sub(1)
SaturatingSub1(n) == IF n = 0 THEN 0 ELSE n - 1

\* Variant: the no_kv_cache test is left out.
CompletionInputIgnoringFlag(batch, nkv) ==
    LET start_pos(i) == SaturatingSub1(Len(batch[i]))
        rows == [i \in 1 .. Len(batch) |->
                    SubSeq(batch[i], start_pos(i) + 1, Len(batch[i]))]
    IN [some |-> TRUE, ok |-> RowsAgree(rows), input |-> rows,
        seqlen_offsets |-> [i \in 1 .. Len(batch) |-> start_pos(i)]]

get_completion_input(batch, nkv) ==
    IF nkv THEN get_prompt_input(batch)
    ELSE LET start_pos(i) == SaturatingSub1(Len(batch[i]))
             rows == [i \in 1 .. Len(batch) |->
                         SubSeq(batch[i], start_pos(i) + 1, Len(batch[i]))]
         IN [some |-> TRUE, ok |-> RowsAgree(rows), input |-> rows,
             seqlen_offsets |-> [i \in 1 .. Len(batch) |-> start_pos(i)]]

NoInput == [some |-> FALSE, ok |-> FALSE, input |-> <<>>, seqlen_offsets |-> <<>>]

\* A prompt step builds its input; the token buffers are only read.
CallGetPromptInput ==
    /\ ~input_result.some
    /\ input_result' = get_prompt_input(input_toks)
    /\ input_call' = "prompt"
    /\ UNCHANGED <<input_toks, toks_at_call, no_kv_cache>>
    /\ UNCHANGED <<fwdVars, srvVars, chanVars, lockVars>>

\* A decode step builds its input.
CallGetCompletionInput ==
    /\ ~input_result.some
    /\ input_result' = get_completion_input(input_toks, no_kv_cache)
    /\ input_call' = "completion"
    /\ UNCHANGED <<input_toks, toks_at_call, no_kv_cache>>
    /\ UNCHANGED <<fwdVars, srvVars, chanVars, lockVars>>

\* ------------------------------------- Llama::forward: the KV-cache locks
\* The loop nest of lines 412-498 at the grain of the MutexGuard `cache`:
\* taken by kv_cache.lock() at the top of a rotation (line 424), alive through
\* the body, dropped where the body ends (line 492) or where a `?` returns.

\* Variant: the guard outlives the rotation that took it.
KeepGuard(h, idx) == h

\* The guard of cache `idx` goes out of scope.
DropGuard(h, idx) == h \ {idx}

\* Entry of a pass with n chunks (lines 409-416).
LockStart(n) ==
    /\ lk_pc \in {"idle", "returned_ok", "returned_err"}
    /\ lk_pc' = "rotation"
    /\ lk_nchunks' = n
    /\ lk_block' = 0
    /\ lk_chunk' = 0
    /\ lk_rot' = 0
    /\ UNCHANGED held
    /\ UNCHANGED <<fwdVars, srvVars, chanVars, inVars>>

\* let mut cache = kv_cache.lock(): blocks for good if this thread already
\* holds that mutex.
AcquireLock ==
    /\ lk_pc = "rotation"
    /\ LET cache_idx == CacheIdx(lk_chunk, lk_rot) IN
       IF cache_idx \in held
       THEN /\ lk_pc' = "blocked"
            /\ UNCHANGED held
       ELSE /\ lk_pc' = "body"
            /\ held' = held \cup {cache_idx}
    /\ UNCHANGED <<lk_nchunks, lk_block, lk_chunk, lk_rot>>
    /\ UNCHANGED <<fwdVars, srvVars, chanVars, inVars>>

\* Lines 426-490 returning Ok: staging, mask, block.forward, accumulation,
\* write-back through the guard.
RotationBodyOk ==
    /\ lk_pc = "body"
    /\ lk_pc' = "end_of_body"
    /\ UNCHANGED <<lk_nchunks, lk_block, lk_chunk, lk_rot, held>>
    /\ UNCHANGED <<fwdVars, srvVars, chanVars, inVars>>

\* A `?` of lines 448 or 476 returns Err from forward: its locals, the guard
\* among them, are dropped.
RotationBodyErr ==
    /\ lk_pc = "body"
    /\ lk_pc' = "returned_err"
    /\ held' = DropGuard(held, CacheIdx(lk_chunk, lk_rot))
    /\ UNCHANGED <<lk_nchunks, lk_block, lk_chunk, lk_rot>>
    /\ UNCHANGED <<fwdVars, srvVars, chanVars, inVars>>

\* End of the rotation body (line 492): the guard is dropped, then the loops
\* advance (lines 494-509 hold no guard).
EndOfRotation ==
    /\ lk_pc = "end_of_body"
    /\ held' = DropGuard(held, CacheIdx(lk_chunk, lk_rot))
    /\ LET last_rot   == lk_rot + 1 = NumRotations
           last_chunk == lk_chunk + 1 = lk_nchunks
           last_block == lk_block + 1 = NumLayers
       IN /\ lk_rot' = IF last_rot THEN 0 ELSE lk_rot + 1
          /\ lk_chunk' = IF ~last_rot THEN lk_chunk
                         ELSE IF last_chunk THEN 0 ELSE lk_chunk + 1
          /\ lk_block' = IF last_rot /\ last_chunk THEN lk_block + 1 ELSE lk_block
          /\ lk_pc' = IF last_rot /\ last_chunk /\ last_block
                      THEN "returned_ok" ELSE "rotation"
    /\ UNCHANGED lk_nchunks
    /\ UNCHANGED <<fwdVars, srvVars, chanVars, inVars>>

InitLk ==
    /\ lk_pc = "idle"
    /\ lk_nchunks = 0
    /\ lk_block = 0
    /\ lk_chunk = 0
    /\ lk_rot = 0
    /\ held = {}


\* -------------------------------------------------------------- initial states
InitFwd ==
    /\ layer_dev \in DeviceMaps
    /\ cuda_devices = CollectDevices(layer_dev, 0, <<>>)
    /\ paged \in BOOLEAN
    /\ kv_caches = NewKvCaches
    /\ pc = "idle"
    /\ seq_len = 0
    /\ offset = 0
    /\ chunks = <<>>
    /\ block_idx = 0
    /\ chunk_idx = 0
    /\ cache_rotation = 0
    /\ accumulated_attention = NoneTensor
    /\ block_chunks = <<>>
    /\ processed_chunks = <<>>
    /\ logits = [some |-> FALSE, srcs |-> <<>>, pos |-> <<>>]
    /\ processed = 0
    /\ entry_caches = NewKvCaches
    /\ last_result = "none"
    /\ failed = FALSE
    /\ releases = 0

\* The handler has sent its request and either returned the Sse stream or
\* blocks in rx.recv().
InitSrv ==
    /\ is_streaming \in BOOLEAN
    /\ rx = <<>>
    /\ tx_alive = TRUE
    /\ sent = <<>>
    /\ is_done = FALSE
    /\ poll_log = <<>>
    /\ handler = IF is_streaming THEN "sse" ELSE "waiting"
    /\ outcome = NoOutcome

InitChan ==
    /\ channels = [c \in ChannelIds |-> <<>>]
    /\ sender = NewMistralRs.sender
    /\ engine_rx = NewMistralRs.engine_rx
    /\ worker_alive = TRUE
    /\ submitted = <<>>
    /\ received = <<>>
    /\ submits = [h \in Handlers |-> 0]
    /\ handler_panicked = [h \in Handlers |-> FALSE]

InitIn ==
    /\ input_toks \in Batches
    /\ toks_at_call = input_toks
    /\ no_kv_cache \in BOOLEAN
    /\ input_call = "none"
    /\ input_result = NoInput

\* The parts a specification does not exercise stay at one fixed value.
FwdAtRest ==
    /\ layer_dev = [l \in Layers |-> l]
    /\ cuda_devices = CollectDevices(layer_dev, 0, <<>>)
    /\ paged = FALSE
    /\ kv_caches = NewKvCaches
    /\ pc = "idle"
    /\ seq_len = 0
    /\ offset = 0
    /\ chunks = <<>>
    /\ block_idx = 0
    /\ chunk_idx = 0
    /\ cache_rotation = 0
    /\ accumulated_attention = NoneTensor
    /\ block_chunks = <<>>
    /\ processed_chunks = <<>>
    /\ logits = [some |-> FALSE, srcs |-> <<>>, pos |-> <<>>]
    /\ processed = 0
    /\ entry_caches = NewKvCaches
    /\ last_result = "none"
    /\ failed = FALSE
    /\ releases = 0

SrvAtRest ==
    /\ is_streaming = FALSE
    /\ rx = <<>>
    /\ tx_alive = TRUE
    /\ sent = <<>>
    /\ is_done = FALSE
    /\ poll_log = <<>>
    /\ handler = "waiting"
    /\ outcome = NoOutcome

ChanAtRest ==
    /\ channels = [c \in ChannelIds |-> <<>>]
    /\ sender = NewMistralRs.sender
    /\ engine_rx = NewMistralRs.engine_rx
    /\ worker_alive = TRUE
    /\ submitted = <<>>
    /\ received = <<>>
    /\ submits = [h \in Handlers |-> 0]
    /\ handler_panicked = [h \in Handlers |-> FALSE]

InAtRest ==
    /\ input_toks = <<<<>>>>
    /\ toks_at_call = input_toks
    /\ no_kv_cache = FALSE
    /\ input_call = "none"
    /\ input_result = NoInput

\* ------------------------------------------------------------- specifications
\* The forward pass driven by the engine, every pass returning Ok.
Init == InitFwd /\ SrvAtRest /\ ChanAtRest /\ InAtRest /\ InitLk

Next ==
    \/ \E S \in StepLengths : StartForward(S)
    \/ CacheRotation
    \/ BlockEnd
    \/ FinishForward
    \/ ReleaseCache

Spec == Init /\ [][Next]_vars

\* One sequence, with a pass that may return Err in any rotation.
NextErr ==
    \/ \E S \in StepLengths : StartForward(S)
    \/ CacheRotation
    \/ CacheRotationErr
    \/ BlockEnd
    \/ FinishForward

SpecErr == Init /\ [][NextErr]_vars

\* One completion request's response channel and its consumer.
InitServer == FwdAtRest /\ InitSrv /\ ChanAtRest /\ InAtRest /\ InitLk

NextServer ==
    \/ \E r \in ResponsesAt(Len(sent) + 1) : EngineRespond(r)
    \/ EngineDropSink
    \/ PollNext
    \/ RecvResponse

SpecServer == InitServer /\ [][NextServer]_vars

\* Handlers submitting requests to the engine worker.
InitChannel == FwdAtRest /\ SrvAtRest /\ InitChan /\ InAtRest /\ InitLk

NextChannel ==
    \/ \E h \in Handlers : Submit(h)
    \/ EngineRecv
    \/ WorkerExit

SpecChannel == InitChannel /\ [][NextChannel]_vars

\* Input construction over every batch within the bounds.
InitInput == FwdAtRest /\ SrvAtRest /\ ChanAtRest /\ InitIn /\ InitLk

NextInput ==
    \/ CallGetPromptInput
    \/ CallGetCompletionInput

SpecInput == InitInput /\ [][NextInput]_vars

\* The cache locks over passes returning Ok or Err.
InitLock == FwdAtRest /\ SrvAtRest /\ ChanAtRest /\ InAtRest /\ InitLk

NextLock ==
    \/ \E n \in 1 .. num_devices : LockStart(n)
    \/ AcquireLock
    \/ RotationBodyOk
    \/ RotationBodyErr
    \/ EndOfRotation

SpecLock == InitLock /\ [][NextLock]_vars

\* ------------------------------------------------------------------- claims
AllSlots == Caches \X Layers

PastLen(kv, c, l) == Len(kv[c][l].past)

\* What a pass on one device, with one cache and no rotation, feeds into the
\* accumulated attention of the positions of `acc`: one Block::forward whose
\* attention ran over the past of the sequence and the positions up to the
\* last one of `acc`.
SingleDeviceKeys(acc) ==
    entry_caches[0][block_idx].past \o Iota(offset, acc.pos[Len(acc.pos)] + 1)

\* C1: each finished chunk's accumulated attention output holds exactly the
\* contribution a single-device pass produces for those positions: one
\* attention result over the keys up to the chunk, not a multiple of it.
C1_ChunkingInvariance ==
    \A i \in 1 .. Len(block_chunks) :
        /\ Len(block_chunks[i].terms) = 1
        /\ ~paged => block_chunks[i].terms[1].keys = SingleDeviceKeys(block_chunks[i])

C3_PastNeverShrinks ==
    [][\A sl \in AllSlots :
          /\ PastLen(kv_caches', sl[1], sl[2]) >= PastLen(kv_caches, sl[1], sl[2])
          /\ kv_caches[sl[1]][sl[2]].some => kv_caches'[sl[1]][sl[2]].some]_vars

\* C3 witness: a pass failed part-way, leaving the caches unevenly extended,
\* and a later pass over the same caches returned Ok.
C3_Witness ==
    /\ failed /\ pc = "idle" /\ last_result = "ok" /\ ~paged
    /\ \E sl \in AllSlots :
          PastLen(kv_caches, sl[1], sl[2]) # PastLen(kv_caches, 0, 0)

\* C4: a second run of the same prompt reads the KV state the first run read:
\* once the caches have been released through the model's `cache` accessor,
\* all per-device caches of Llama::kv_caches are as they were at construction.
C4_ReleaseRestoresFreshState ==
    last_result = "released" => kv_caches = NewKvCaches

\* Poll results that delivered an event to the client.
Events == SelectSeq(poll_log, LAMBDA e : e.kind = "Some")

IsFinalChunk(e) == e.kind = "Some" /\ e.variant = "CompletionChunk" /\ e.done

IsError(e) ==
    /\ e.kind = "Some"
    /\ e.variant \in {"CompletionModelError", "ValidationError", "InternalError"}

\* C5: once the Streamer has delivered a final chunk (done = true), every
\* later poll returns end-of-stream: no event follows it, so at most one final
\* chunk is delivered, whatever is still queued on the channel.
C5_NothingAfterFinalChunk ==
    \A i, j \in 1 .. Len(poll_log) :
        (i < j /\ IsFinalChunk(poll_log[i])) => poll_log[j] = PollNone

\* C5 witness: a non-final chunk, then the final chunk, then a poll that
\* returned end-of-stream while another response was queued.
C5_Witness ==
    /\ Len(poll_log) >= 3
    /\ poll_log[1].kind = "Some" /\ ~poll_log[1].done
    /\ IsFinalChunk(poll_log[2])
    /\ poll_log[3] = PollNone
    /\ rx # <<>>

\* C6: after the Streamer has delivered a ModelError, ValidationError or
\* InternalError response, the stream ends: every later poll returns
\* end-of-stream, so the error is the one terminal event of the request.
C6_ErrorEndsStream ==
    \A i, j \in 1 .. Len(poll_log) :
        (i < j /\ IsError(poll_log[i])) => poll_log[j] = PollNone

\* C7: the non-streaming handler takes exactly one response from the channel
\* and returns the one outcome that response stands for: CompletionDone the
\* JSON result, ValidationError 422 with the message, InternalError 500 with
\* the message, CompletionModelError 500 with the message and the partial
\* response.
C7_OneOutcomePerResponse ==
    ~is_streaming =>
        /\ handler = "waiting" => (rx = sent /\ outcome = NoOutcome)
        /\ handler = "returned" =>
              /\ rx = SubSeq(sent, 2, Len(sent))
              /\ LET r == sent[1] IN
                 /\ r.variant = "CompletionDone" =>
                       (outcome.status = 200 /\ outcome.response = r.data)
                 /\ r.variant = "ValidationError" =>
                       (outcome.status = 422 /\ outcome.message = r.data)
                 /\ r.variant = "InternalError" =>
                       (outcome.status = 500 /\ outcome.message = r.data)
                 /\ r.variant = "CompletionModelError" =>
                       /\ outcome.status = 500
                       /\ outcome.message = r.data
                       /\ outcome.response = r.partial
        /\ (Len(rx) < Len(sent) /\ sent[1].variant \in RespondArms) =>
              handler = "returned"

\* C7 witness: the handler returned the outcome of a model error while a
\* second response stayed queued.
C7_Witness ==
    /\ ~is_streaming /\ handler = "returned"
    /\ sent[1].variant = "CompletionModelError"
    /\ outcome.response = sent[1].partial
    /\ Len(rx) >= 1

\* C8: while it streams, the Streamer has delivered exactly one event per
\* response it took, in the order the responses were sent: the events are the
\* payloads of a prefix of the sent responses, and what is not yet delivered
\* is still queued, in order.
C8_DeliveredInOrder ==
    is_streaming =>
        /\ Len(Events) <= Len(sent)
        /\ \A k \in 1 .. Len(Events) :
              /\ k <= Len(sent)
              /\ Events[k].data = sent[k].data
              /\ Events[k].variant = sent[k].variant
              /\ Events[k].done = sent[k].done
        /\ handler = "sse" => rx = SubSeq(sent, Len(Events) + 1, Len(sent))

\* C8 witness: three responses of different kinds were delivered in order.
C8_Witness ==
    /\ is_streaming /\ handler = "sse"
    /\ Len(Events) >= 3
    /\ Events[1].variant = "CompletionChunk"
    /\ Events[2].variant = "ValidationError"
    /\ Events[3].variant = "CompletionChunk"
    /\ Events[1].data < Events[2].data /\ Events[2].data < Events[3].data

IsPrefix(a, b) == Len(a) <= Len(b) /\ a = SubSeq(b, 1, Len(a))

\* C9: the worker receives the requests in the order their sends completed,
\* none twice; while the worker is alive every submitted request is either
\* received or still queued in order, and no handler's send has failed.
C9_SubmissionOrder ==
    /\ IsPrefix(received, submitted)
    /\ worker_alive => submitted = received \o channels[engine_rx]
    /\ \A h \in Handlers : handler_panicked[h] => ~worker_alive
    /\ \A i, j \in 1 .. Len(submitted) : i # j => submitted[i] # submitted[j]

\* C9 witness: the live worker has received three requests, interleaved from
\* two handlers.
C9_Witness ==
    /\ worker_alive
    /\ Len(received) >= 3
    /\ received[1].handler # received[2].handler
    /\ received[3].handler = received[1].handler

\* C10: get_prompt_input gives every row the length of the longest token
\* buffer of the batch; row i is sequence i's tokens followed by token id 0
\* only; every offset is 0; and the token buffers are what they were.
C10_PromptInput ==
    input_call = "prompt" =>
        LET n       == Len(input_toks)
            max_len == MaxOf({ Len(input_toks[i]) : i \in 1 .. n })
            r       == input_result
        IN /\ r.some /\ r.ok
           /\ Len(r.input) = n
           /\ Len(r.seqlen_offsets) = n
           /\ \A i \in 1 .. n :
                 /\ Len(r.input[i]) = max_len
                 /\ \A k \in 1 .. max_len :
                       r.input[i][k] = IF k <= Len(input_toks[i])
                                       THEN input_toks[i][k] ELSE 0
                 /\ r.seqlen_offsets[i] = 0
           /\ input_toks = toks_at_call

\* C10 witness: a batch of a short and a long sequence, the short one padded.
C10_Witness ==
    /\ input_call = "prompt"
    /\ Len(input_toks) = 2
    /\ Len(input_toks[1]) = 1 /\ input_toks[1][1] # 0
    /\ Len(input_toks[2]) = 3
    /\ input_result.input[1] = <<input_toks[1][1], 0, 0>>

\* C11: a decode step with the KV cache in use builds, for every sequence with
\* at least one token, a row holding exactly its last token, with offset
\* len - 1; an empty sequence gets an empty row and offset 0, never a
\* wrapped-around offset. When the call returns, these rows are its input.
C11_CompletionInput ==
    (input_call = "completion" /\ ~no_kv_cache) =>
        /\ Len(input_result.input) = Len(input_toks)
        /\ Len(input_result.seqlen_offsets) = Len(input_toks)
        /\ \A i \in 1 .. Len(input_toks) :
              LET n == Len(input_toks[i]) IN
              /\ input_result.seqlen_offsets[i] >= 0
              /\ n >= 1 => /\ input_result.input[i] = <<input_toks[i][n]>>
                           /\ input_result.seqlen_offsets[i] = n - 1
              /\ n = 0 => /\ input_result.input[i] = <<>>
                          /\ input_result.seqlen_offsets[i] = 0
        /\ input_toks = toks_at_call

\* C11 witness: a decode step over two sequences of different lengths, each
\* longer than one token, whose last tokens differ, has returned.
C11_Witness ==
    /\ input_call = "completion" /\ ~no_kv_cache /\ input_result.ok
    /\ Len(input_toks) = 2
    /\ Len(input_toks[1]) = 2 /\ Len(input_toks[2]) = 3
    /\ input_result.input = <<<<padding_tok>>, <<7>>>>
    /\ input_result.seqlen_offsets = <<1, 2>>

\* C12: with KV caching disabled the decode step returns exactly what the
\* prompt step returns for the same batch: every sequence's full history
\* padded to the longest, and every offset 0.
C12_NoKvCacheIsPromptInput ==
    (input_call = "completion" /\ no_kv_cache) =>
        /\ input_result = get_prompt_input(input_toks)
        /\ \A i \in 1 .. Len(input_toks) :
              /\ input_result.seqlen_offsets[i] = 0
              /\ SubSeq(input_result.input[i], 1, Len(input_toks[i])) = input_toks[i]

\* C12 witness: a decode step without KV cache over two sequences of
\* different lengths, the longer of more than one token, has returned.
C12_Witness ==
    /\ input_call = "completion" /\ no_kv_cache /\ input_result.ok
    /\ Len(input_toks) = 2
    /\ Len(input_toks[1]) = 3 /\ Len(input_toks[2]) = 1
    /\ Len(input_result.input[2]) = 3
    /\ input_result.seqlen_offsets = <<0, 0>>

\* The standard Llama block over input x, as a term; the two operands of a
\* sum may come in either order.
StandardX1(x) == { add(x, attn(rms_1(x))), add(attn(rms_1(x)), x) }

StandardBlock(x) ==
    UNION { { add(x1, mlp(rms_2(x1))), add(mlp(rms_2(x1)), x1) } : x1 \in StandardX1(x) }

\* C13: what a block hands on for the positions of every chunk is
\* x1 + MLP(RMSNorm2(x1)) with x1 = x + Attn(RMSNorm1(x)): the attention
\* residual added once, RMSNorm2 on the MLP input only, the MLP residual the
\* un-normalised x1.
C13_StandardBlockOrdering ==
    \A k \in 1 .. Len(processed_chunks) :
        \A i \in 1 .. Len(processed_chunks[k].out) :
            processed_chunks[k].out[i] \in StandardBlock(wte)

\* C14: every sending handle a producer obtains is for the one channel whose
\* receiving end the engine worker owns; requests are queued on no other
\* channel, and every request sent is either in the worker's hands or still
\* queued for it: nobody else takes requests.
C14_SingleEngineLoop ==
    /\ get_sender = engine_rx
    /\ \A c \in ChannelIds \ {engine_rx} : channels[c] = <<>>
    /\ \A i \in 1 .. Len(received) :
          \E j \in 1 .. Len(submitted) : submitted[j] = received[i]
    /\ worker_alive =>
          Len(submitted) = Len(received) + Len(channels[engine_rx])

\* C14 witness: the worker has taken requests of two different producers
\* while another request is still queued for it.
C14_Witness ==
    /\ worker_alive
    /\ \E i, j \in 1 .. Len(received) : received[i].handler # received[j].handler
    /\ channels[engine_rx] # <<>>

\* C15: block 0 reads the embedding, block i + 1 reads the output of block i,
\* and the final norm and LM head get the output of the last block only, of
\* the input's sequence length.
C15_BlockChaining ==
    /\ \A k \in 1 .. Len(processed_chunks) :
          processed_chunks[k].from = { processed_chunks[k].src - 1 }
    /\ (pc = "idle" /\ last_result = "ok") =>
          /\ logits.srcs = <<NumLayers - 1>>
          /\ Len(logits.pos) = seq_len

ChunkSize(ch) == ch.end - ch.start

CeilDiv(a, b) == (a + b - 1) \div b

SlicesTaken ==
    IF pc = "panicked"
    THEN SubSeq(ChunkBounds(seq_len), 1, Len(cuda_devices) + 1)
    ELSE chunks

C18_RotationCountIsDeviceCount ==
    \A i \in 1 .. Len(block_chunks) :
        LET N == Len(cuda_devices) IN
        /\ Len(block_chunks[i].terms) = N
        /\ \A r \in 1 .. Len(block_chunks[i].terms) :
              block_chunks[i].terms[r].cache = ((i - 1) + (r - 1)) % N

\* The devices on which the occupied slots of cache c live.
Resident(kv, c) == { kv[c][l].dev : l \in { m \in Layers : kv[c][m].some } }

\* C19: a cache that holds data lives on one device, and no step (a rotation
\* with its staging and write-back, the end of a block, the end or failure
\* of a pass) changes that device.
C19_ResidentDeviceStable ==
    [][\A c \in Caches :
          Resident(kv_caches, c) # {} =>
              /\ Cardinality(Resident(kv_caches, c)) = 1
              /\ Resident(kv_caches', c) = Resident(kv_caches, c)]_vars

\* C19 witness: a chunk on another device than the cache's has just staged
\* a non-empty cache, run its attention and written the cache back.
C19_Witness ==
    /\ pc = "chunks" /\ ~paged /\ cache_rotation >= 1
    /\ LET k == CacheIdx(chunk_idx, cache_rotation - 1) IN
       /\ Resident(kv_caches, k) # {}
       /\ At(chunks, chunk_idx).dev \notin Resident(kv_caches, k)
       /\ Len(kv_caches[k][block_idx].past) >= 2

\* Every rotation result held for the block in progress.
TermsInFlight ==
    Flatten([i \in 1 .. Len(block_chunks) |-> block_chunks[i].terms])
        \o accumulated_attention.terms

\* C20: while a pass runs, the blocks before block_idx have completed fully
\* (each pushed its output over all S positions, in block order) and nothing of
\* a later block exists; within the block the chunks are done in order, each
\* with its rotations in order, and a rotation finds in its cache what every
\* earlier rotation on that cache wrote back.
C20_BlocksAndRotationsInOrder ==
    pc \in {"chunks", "block_end", "finish"} =>
        /\ Len(processed_chunks) = block_idx
        /\ \A k \in 1 .. Len(processed_chunks) :
              /\ processed_chunks[k].src = k - 1
              /\ Len(processed_chunks[k].pos) = seq_len
              /\ Len(processed_chunks[k].out) = Len(chunks)
        /\ \A i \in 1 .. Len(TermsInFlight) : TermsInFlight[i].blk = block_idx
        /\ Len(block_chunks) = chunk_idx
        /\ \A i \in 1 .. Len(block_chunks) :
              Len(block_chunks[i].terms) = NumRotations
        /\ Len(accumulated_attention.terms) = cache_rotation
        /\ \A r \in 1 .. Len(accumulated_attention.terms) :
              LET x == accumulated_attention.terms[r] IN
              /\ x.cache = CacheIdx(chunk_idx, r - 1)
              /\ ~paged => x.keys = entry_caches[x.cache][block_idx].past
                              \o Iota(offset, offset + At(chunks, chunk_idx).end)

\* C20 witness: in the second block, the second chunk has finished some of
\* its rotations after the first chunk finished all of its own.
C20_Witness ==
    /\ pc = "chunks" /\ ~paged /\ block_idx = 1 /\ chunk_idx = 1
    /\ cache_rotation = 2
    /\ Len(accumulated_attention.terms[2].keys) >= 2

\* A pass is between its entry and its return.
InFlight == pc \in {"chunks", "block_end", "finish"}

\* C22: at the start of every decode step of a sequence, the offset given to
\* the model, len(seq) - 1 with len(seq) one more than the positions of the
\* sequence already run, is the past length of every layer slot of every
\* cache, and that past is exactly the positions the earlier steps of the
\* sequence appended, in order.
C22_DecodeSeesPreviousSteps ==
    (InFlight /\ ~paged /\ offset > 0) =>
        /\ seq_len = 1
        /\ offset = SaturatingSub1(processed + 1)
        /\ \A sl \in AllSlots :
              /\ PastLen(entry_caches, sl[1], sl[2]) = offset
              /\ entry_caches[sl[1]][sl[2]].past = Iota(0, offset)

\* C23: between passes, also after a pass that returned Err part-way, every
\* layer slot of every cache has the same past length.
C23_EvenAfterFailure ==
    pc = "idle" =>
        \A s1, s2 \in AllSlots :
            PastLen(kv_caches, s1[1], s1[2]) = PastLen(kv_caches, s2[1], s2[2])

\* C24: no pass aborts on an out-of-range index into cuda_devices, whatever
\* the layer map (one or more distinct devices) and the sequence length.
C24_DeviceIndexInRange == pc # "panicked"

\* The slices computed at the entry of the pass in flight or last run.
Slices == IF chunks # <<>> THEN chunks ELSE ChunkBounds(seq_len)

\* C25: for S >= 1 the chunks are non-empty, contiguous and in increasing
\* order, start at 0 and end at S, so they cover 0 .. S - 1 exactly once; and
\* the concatenation of a block's per-chunk results has the S positions of
\* the input in their order.
C25_ChunksPartitionSequence ==
    seq_len >= 1 =>
        /\ Len(Slices) >= 1
        /\ Slices[1].start = 0
        /\ Slices[Len(Slices)].end = seq_len
        /\ \A j \in 1 .. Len(Slices) : Slices[j].start < Slices[j].end
        /\ \A j \in 1 .. (Len(Slices) - 1) : Slices[j].end = Slices[j + 1].start
        /\ InFlight =>
              \A k \in 1 .. Len(processed_chunks) :
                  processed_chunks[k].pos = Iota(offset, offset + seq_len)

\* C25 witness: a block of a five-position pass has been concatenated; the
\* last chunk took the remainder.
C25_Witness ==
    /\ InFlight /\ seq_len = num_devices + 1
    /\ Len(processed_chunks) >= 1
    /\ ChunkSize(chunks[Len(chunks)]) = 2
    /\ Len(processed_chunks[1].pos) = seq_len

\* C26: with paged attention no step of a forward pass changes a per-device
\* KV cache: no slot gains or loses entries or moves.
C26_PagedLeavesCachesAlone ==
    [][paged => kv_caches' = kv_caches]_vars

\* C26 witness: on the paged path a prompt pass and a decode pass have
\* returned Ok and the caches are as constructed.
C26_Witness ==
    /\ paged /\ pc = "idle" /\ last_result = "ok"
    /\ processed >= 2 /\ seq_len = 1
    /\ kv_caches = NewKvCaches

\* C27: once the engine has dropped the sink and the queue is drained, polling
\* ends the stream. A poll in that state that returns Pending and leaves the
\* Streamer as it was is repeated by every later poll, so the stream ends only
\* if such a poll returns end-of-stream.
C27_DrainedPollEndsStream ==
    [][(/\ handler = "sse" /\ ~tx_alive /\ rx = <<>>
        /\ Len(poll_log') = Len(poll_log) + 1)
          => poll_log'[Len(poll_log')] = PollNone]_vars

\* C28: a handler that submits after the worker has exited gets an error
\* outcome; its send().unwrap() does not panic.
C28_SubmitAfterExitNoPanic ==
    \A h \in Handlers : ~handler_panicked[h]

\* C29: the forward pass holds at most one cache lock at any moment; between
\* rotations and after a return, Ok or Err, it holds none; and it never waits
\* for a cache lock (while holding another, or at all).
C29_OneCacheLockAtATime ==
    /\ Cardinality(held) <= 1
    /\ lk_pc # "blocked"
    /\ lk_pc \in {"idle", "rotation", "returned_ok", "returned_err"} => held = {}
    /\ lk_pc \in {"body", "end_of_body"} => held = {CacheIdx(lk_chunk, lk_rot)}

\* C29 witness: a later chunk, in a later rotation of a later block, holds
\* the lock of a cache that earlier rotations locked and released.
C29_Witness ==
    /\ lk_pc = "body" /\ lk_block >= 1 /\ lk_chunk >= 1 /\ lk_rot >= 1
    /\ held = {CacheIdx(lk_chunk, lk_rot)}
    /\ CacheIdx(lk_chunk, lk_rot) = CacheIdx(0, 0)

=============================================================================
